---- MODULE Spec2Model ----
(***************************************************************************)
(* Model of the triathlon training planner: the rule engine                *)
(* (packages/core/src/rules-engine.ts, packages/core/src/types.ts), the    *)
(* plan generator (plan-generator.ts, listed in CHANGELOG.md) and the      *)
(* worker that processes the bot's commands (apps/worker/src/index.ts).    *)
(*                                                                         *)
(* A calendar date 'YYYY-MM-DD' is modelled by its day number counted from *)
(* 2024-03-27 (a Wednesday): for well-formed ISO dates the string order    *)
(* used by localeCompare and the string equality used by === coincide with *)
(* the order and equality of day numbers.                                  *)
(* A session's tags array is modelled by the set of its elements (absent   *)
(* tags = empty set), its title by the sequence of its parts and its notes *)
(* by the sequence of its lines (absent notes = empty sequence).           *)
(***************************************************************************)
EXTENDS Integers, Sequences, FiniteSets, TLC

VARIABLES
    weekPlan,   \* the WeekPlan handed to applyRules
    context,    \* the RulesContext handed to applyRules
    tz,         \* time zone of the process that runs the engine
    hist,       \* the values the local variable `plan` of applyRules has held
    pc,         \* position inside applyRules and inside the /plan pipeline
    profile,    \* the UserProfile handed to the plan generator
    draft,      \* the WeekPlan handed to addOptionalSundaySwim
    heap,       \* the arrays allocated so far, an array's address is its index
    planRef,    \* the WeekPlan object the local variable `plan` refers to
    inputs,     \* the WeekPlan objects handed to the calls made so far
    jobs,       \* the command queue: state and attempts of each job
    slots,      \* the worker's concurrent processor invocations
    db,         \* the database tables the worker writes
    sent        \* the replies delivered to the chat

heapVars == <<heap, planRef, inputs>>

workerVars == <<jobs, slots, db, sent>>

vars == <<weekPlan, context, tz, hist, pc, profile, draft, heapVars, workerVars>>

----------------------------------------------------------------------------
(* Bounds of the model *)

MaxSessions == 3
MaxDay == 3

\* how often the bot enqueues a job for one Telegram message
MaxDeliveries == 2

\* how many of the worker's concurrent slots the model runs
MaxSlots == 2

Dates == 0 .. MaxDay

----------------------------------------------------------------------------
(* types.ts *)

Sport == {"swim", "bike", "run", "strength", "rest"}

Intensity == {"z1", "z2", "z3", "z4", "z5"}

HARD_INTENSITIES == {"z4", "z5"}

HARD_TAGS == {"vo2", "threshold"}

\* isHardSession without the test on tags
isHardSession_IntensityOnly(session) ==
    IF session.intensity \in HARD_INTENSITIES THEN TRUE
    ELSE FALSE

isHardSession(session) ==
    IF session.intensity \in HARD_INTENSITIES THEN TRUE
    ELSE IF \E tag \in session.tags : tag \in HARD_TAGS THEN TRUE
    ELSE FALSE

\* A text with the numbers interpolated into it
Entry(text, a, b) == [text |-> text, a |-> a, b |-> b]

\* One line of a session's notes
Note(line, reason) == [line |-> line, reason |-> reason]

NoReason == Entry("", 0, 0)

\* downgradeToEasy dropping every tag
downgradeToEasy_ClearsTags(session, reason) ==
    [session EXCEPT
        !.intensity = "z2",
        !.title = Append(session.title, "(downgraded to Z2)"),
        !.notes = Append(session.notes, Note("Downgraded", reason)),
        !.tags = {}]

\* downgradeToEasy without the filter on tags
downgradeToEasy_KeepsTags(session, reason) ==
    [session EXCEPT
        !.intensity = "z2",
        !.title = Append(session.title, "(downgraded to Z2)"),
        !.notes = Append(session.notes, Note("Downgraded", reason))]

downgradeToEasy(session, reason) ==
    [session EXCEPT
        !.intensity = "z2",
        !.title = Append(session.title, "(downgraded to Z2)"),
        !.notes = Append(session.notes, Note("Downgraded", reason)),
        !.tags = {tag \in session.tags : tag \notin HARD_TAGS}]

----------------------------------------------------------------------------
(* Calendar arithmetic of the JavaScript runtime *)

\* getDay() of day number 0, 2024-03-27, a Wednesday (Sunday is 0)
Day0GetDay == 3

getDay(date) == (date + Day0GetDay) % 7

DayNames == <<"Sun", "Mon", "Tue", "Wed", "Thu", "Fri", "Sat">>

dayNameOf(date) == DayNames[getDay(date) + 1]

TimeZones == {"UTC", "Asia/Jerusalem"}

hourInMs == 60 * 60 * 1000

dayInMs == 24 * 60 * 60 * 1000

\* Offset from UTC of local midnight of a date.  In Asia/Jerusalem summer
\* time began on Friday 2024-03-29 (day 2) at 02:00 local time.  In
\* Africa/Cairo it began on Friday 2024-04-26 (day 30) at 00:00, a midnight
\* the runtime resolves with the offset before the change, and ended on
\* Thursday 2024-10-31 (day 218) at 24:00.
utcOffsetMs(zone, date) ==
    IF zone = "UTC" THEN 0
    ELSE IF zone = "Africa/Cairo"
    THEN IF 31 <= date /\ date <= 218 THEN 3 * hourInMs ELSE 2 * hourInMs
    ELSE IF date <= 2 THEN 2 * hourInMs ELSE 3 * hourInMs

\* new Date(date + 'T00:00:00').getTime(): a date-time string without an
\* offset is local time.  Every midnight of the model is a whole number of
\* hours from 2024-03-27T00:00Z; getTime counts these hours, and isNextDay
\* turns the difference into milliseconds, which keeps the numbers of an
\* autumn date within the checker's integers.
getTime(zone, date) == date * 24 - utcOffsetMs(zone, date) \div hourInMs

\* isNextDay with diff >= oneDayInMs
isNextDay_AtLeast(zone, date1, date2) ==
    LET d1 == getTime(zone, date1)
        d2 == getTime(zone, date2)
        diff == (d2 - d1) * hourInMs
    IN  diff >= dayInMs

isNextDay(zone, date1, date2) ==
    LET d1 == getTime(zone, date1)
        d2 == getTime(zone, date2)
        diff == (d2 - d1) * hourInMs
    IN  diff = dayInMs

----------------------------------------------------------------------------
(* rules-engine.ts *)

needsTechnique(session) ==
    /\ session.sport = "swim"
    /\ dayNameOf(session.date) = "Wed"
    /\ "technique" \notin session.tags

needsIntervals(session) ==
    /\ session.sport = "swim"
    /\ dayNameOf(session.date) = "Fri"
    /\ "intervals" \notin session.tags

\* applySwimRotationRule pushing its entry inside the forEach loop
applySwimRotationRule_PerSession(p) ==
    LET rotate(session) ==
            IF needsTechnique(session)
            THEN [session EXCEPT
                    !.title = <<"Swim Technique">>,
                    !.tags = {"technique"},
                    !.notes = Append(session.notes, Note("Adjusted to technique session", NoReason))]
            ELSE IF needsIntervals(session)
            THEN [session EXCEPT
                    !.title = <<"Swim Intervals">>,
                    !.tags = {"intervals"},
                    !.intensity = "z4",
                    !.notes = Append(session.notes, Note("Adjusted to intervals session", NoReason))]
            ELSE session
        sessions == [idx \in 1 .. Len(p.sessions) |-> rotate(p.sessions[idx])]
        rewritten == {idx \in 1 .. Len(p.sessions) :
                        needsTechnique(p.sessions[idx]) \/ needsIntervals(p.sessions[idx])}
        appliedRules == p.appliedRules
                        \o [i \in 1 .. Cardinality(rewritten) |-> Entry("SwimRotation", 0, 0)]
    IN  [p EXCEPT !.sessions = sessions, !.appliedRules = appliedRules]

\* applySwimRotationRule without the tests on the tags a session has
applySwimRotationRule_Always(p) ==
    LET isWed(session) == session.sport = "swim" /\ dayNameOf(session.date) = "Wed"
        isFri(session) == session.sport = "swim" /\ dayNameOf(session.date) = "Fri"
        rotate(session) ==
            IF isWed(session)
            THEN [session EXCEPT
                    !.title = <<"Swim Technique">>,
                    !.tags = {"technique"},
                    !.notes = Append(session.notes, Note("Adjusted to technique session", NoReason))]
            ELSE IF isFri(session)
            THEN [session EXCEPT
                    !.title = <<"Swim Intervals">>,
                    !.tags = {"intervals"},
                    !.intensity = "z4",
                    !.notes = Append(session.notes, Note("Adjusted to intervals session", NoReason))]
            ELSE session
        sessions == [idx \in 1 .. Len(p.sessions) |-> rotate(p.sessions[idx])]
        modified == \E idx \in 1 .. Len(p.sessions) :
                        isWed(p.sessions[idx]) \/ isFri(p.sessions[idx])
        appliedRules == IF modified
                        THEN Append(p.appliedRules, Entry("SwimRotation", 0, 0))
                        ELSE p.appliedRules
    IN  [p EXCEPT !.sessions = sessions, !.appliedRules = appliedRules]

applySwimRotationRule(p) ==
    LET rotate(session) ==
            IF needsTechnique(session)
            THEN [session EXCEPT
                    !.title = <<"Swim Technique">>,
                    !.tags = {"technique"},
                    !.notes = Append(session.notes, Note("Adjusted to technique session", NoReason))]
            ELSE IF needsIntervals(session)
            THEN [session EXCEPT
                    !.title = <<"Swim Intervals">>,
                    !.tags = {"intervals"},
                    !.intensity = "z4",
                    !.notes = Append(session.notes, Note("Adjusted to intervals session", NoReason))]
            ELSE session
        sessions == [idx \in 1 .. Len(p.sessions) |-> rotate(p.sessions[idx])]
        modified == \E idx \in 1 .. Len(p.sessions) :
                        needsTechnique(p.sessions[idx]) \/ needsIntervals(p.sessions[idx])
        appliedRules == IF modified
                        THEN Append(p.appliedRules, Entry("SwimRotation", 0, 0))
                        ELSE p.appliedRules
    IN  [p EXCEPT !.sessions = sessions, !.appliedRules = appliedRules]

\* applyReadinessDownshiftRule taking "the next 24h" to include tomorrow
applyReadinessDownshiftRule_Next24h(p, ctx) ==
    IF ctx.todayFatigue = <<>> \/ ctx.todayFatigue[1].readiness > 2
    THEN p
    ELSE
    LET todayStr == p.startDate
        readiness == ctx.todayFatigue[1].readiness
        hit(session) == session.date \in {todayStr, todayStr + 1} /\ isHardSession(session)
        sessions == [idx \in 1 .. Len(p.sessions) |->
                        IF hit(p.sessions[idx])
                        THEN downgradeToEasy(p.sessions[idx], Entry("Low readiness", readiness, 5))
                        ELSE p.sessions[idx]]
        modified == \E idx \in 1 .. Len(p.sessions) : hit(p.sessions[idx])
    IN  [p EXCEPT
            !.sessions = sessions,
            !.warnings = IF modified
                         THEN Append(p.warnings,
                                     Entry("Low readiness detected", readiness, 5))
                         ELSE p.warnings,
            !.appliedRules = IF modified
                             THEN Append(p.appliedRules, Entry("ReadinessDownshift", 0, 0))
                             ELSE p.appliedRules]

\* context.todayFatigue is optional: <<>> when absent, else <<[readiness |-> r]>>
applyReadinessDownshiftRule(p, ctx) ==
    IF ctx.todayFatigue = <<>> \/ ctx.todayFatigue[1].readiness > 2
    THEN p
    ELSE
    LET todayStr == p.startDate
        readiness == ctx.todayFatigue[1].readiness
        hit(session) == session.date = todayStr /\ isHardSession(session)
        sessions == [idx \in 1 .. Len(p.sessions) |->
                        IF hit(p.sessions[idx])
                        THEN downgradeToEasy(p.sessions[idx], Entry("Low readiness", readiness, 5))
                        ELSE p.sessions[idx]]
        modified == \E idx \in 1 .. Len(p.sessions) : hit(p.sessions[idx])
    IN  [p EXCEPT
            !.sessions = sessions,
            !.warnings = IF modified
                         THEN Append(p.warnings,
                                     Entry("Low readiness detected", readiness, 5))
                         ELSE p.warnings,
            !.appliedRules = IF modified
                             THEN Append(p.appliedRules, Entry("ReadinessDownshift", 0, 0))
                             ELSE p.appliedRules]

\* A sort that puts a session before those of its date already placed
RECURSIVE insertByDate_Unstable(_, _)
insertByDate_Unstable(sorted, session) ==
    IF sorted = <<>> THEN <<session>>
    ELSE IF sorted[Len(sorted)].date < session.date THEN Append(sorted, session)
    ELSE Append(insertByDate_Unstable(SubSeq(sorted, 1, Len(sorted) - 1), session),
                sorted[Len(sorted)])

\* [...].sort((a, b) => a.date.localeCompare(b.date)): a stable sort
RECURSIVE insertByDate(_, _)
insertByDate(sorted, session) ==
    IF sorted = <<>> THEN <<session>>
    ELSE IF sorted[Len(sorted)].date <= session.date THEN Append(sorted, session)
    ELSE Append(insertByDate(SubSeq(sorted, 1, Len(sorted) - 1), session),
                sorted[Len(sorted)])

RECURSIVE sortByDate(_)
sortByDate(sessions) ==
    IF sessions = <<>> THEN <<>>
    ELSE insertByDate(sortByDate(SubSeq(sessions, 1, Len(sessions) - 1)),
                      sessions[Len(sessions)])

\* previousDate = null
NoDate == 0 - 1

\* The forEach loop of applyNoHardHardRule from index idx on: w holds the
\* loop's variables sessions, modified, previousWasHard and previousDate.
RECURSIVE noHardHardLoop(_, _, _)
noHardHardLoop(zone, w, idx) ==
    IF idx > Len(w.sessions) THEN w
    ELSE
    LET session == w.sessions[idx]
        currentHard == isHardSession(session)
        isConsecutive == w.previousDate # NoDate
                         /\ isNextDay(zone, w.previousDate, session.date)
        next ==
            IF isConsecutive /\ w.previousWasHard /\ currentHard
            THEN [w EXCEPT
                    !.sessions[idx] = downgradeToEasy(session,
                        Entry("No back-to-back hard sessions allowed", 0, 0)),
                    !.modified = TRUE,
                    !.previousWasHard = FALSE,
                    !.previousDate = session.date]
            ELSE [w EXCEPT
                    !.previousWasHard = currentHard,
                    !.previousDate = session.date]
    IN  noHardHardLoop(zone, next, idx + 1)

\* applyNoHardHardRule with unshift in place of push
applyNoHardHardRule_Unshift(zone, p) ==
    LET w == noHardHardLoop(zone,
                 [sessions |-> sortByDate(p.sessions), modified |-> FALSE,
                  previousWasHard |-> FALSE, previousDate |-> NoDate], 1)
    IN  [p EXCEPT
            !.sessions = w.sessions,
            !.warnings = IF w.modified
                         THEN <<Entry("Adjusted plan to avoid back-to-back hard sessions", 0, 0)>>
                              \o p.warnings
                         ELSE p.warnings,
            !.appliedRules = IF w.modified
                             THEN <<Entry("NoHardHard", 0, 0)>> \o p.appliedRules
                             ELSE p.appliedRules]

applyNoHardHardRule(zone, p) ==
    LET w == noHardHardLoop(zone,
                 [sessions |-> sortByDate(p.sessions), modified |-> FALSE,
                  previousWasHard |-> FALSE, previousDate |-> NoDate], 1)
    IN  [p EXCEPT
            !.sessions = w.sessions,
            !.warnings = IF w.modified
                         THEN Append(p.warnings,
                             Entry("Adjusted plan to avoid back-to-back hard sessions", 0, 0))
                         ELSE p.warnings,
            !.appliedRules = IF w.modified
                             THEN Append(p.appliedRules, Entry("NoHardHard", 0, 0))
                             ELSE p.appliedRules]

RECURSIVE sumDurations(_)
sumDurations(sessions) ==
    IF sessions = <<>> THEN 0
    ELSE sumDurations(SubSeq(sessions, 1, Len(sessions) - 1))
         + sessions[Len(sessions)].durationMin

\* Math.min in place of Math.max
max_Min(a, b) == IF a <= b THEN a ELSE b

max(a, b) == IF a >= b THEN a ELSE b

\* Math.round(lastWeekMinutes * 1.1) for a non-negative integer: the double
\* nearest to 1.1 is above 1.1, so the product is never below a half that
\* the exact product reaches, and Math.round rounds halves up.
roundTimes1_1(minutes) == (11 * minutes + 5) \div 10

\* no scaling at all
roundScaled_Unscaled(durationMin, maxAllowedMinutes, plannedMinutes) == durationMin

\* Math.round(durationMin * scaleFactor), scaleFactor = maxAllowed / planned,
\* in exact arithmetic.  The double product can fall just below an exact
\* half (45 * (35 / 50) is 31.499999999999996); no duration, cap and total
\* that the inputs of this model produce is such a case.
roundScaled(durationMin, maxAllowedMinutes, plannedMinutes) ==
    (2 * durationMin * maxAllowedMinutes + plannedMinutes) \div (2 * plannedMinutes)

\* applyWeeklyLoadCapRule without the early return for an empty history
applyWeeklyLoadCapRule_NoHistoryCheck(p, ctx) ==
    LET lastWeekMinutes == ctx.last7dStats.totalMinutes
        plannedMinutes == sumDurations(p.sessions)
        maxAllowedMinutes == roundTimes1_1(lastWeekMinutes)
        scale(session) ==
            IF session.sport # "rest" /\ session.durationMin > 0
            THEN LET newDuration ==
                        max(30, roundScaled(session.durationMin, maxAllowedMinutes,
                                            plannedMinutes))
                 IN  IF newDuration # session.durationMin
                     THEN [session EXCEPT
                            !.durationMin = newDuration,
                            !.notes = Append(session.notes,
                                Note("Duration adjusted for progressive load management",
                                     NoReason))]
                     ELSE session
            ELSE session
    IN  IF plannedMinutes <= maxAllowedMinutes THEN p
        ELSE [p EXCEPT
                !.sessions = [idx \in 1 .. Len(p.sessions) |-> scale(p.sessions[idx])],
                !.warnings = Append(p.warnings,
                    Entry("Weekly load capped at 110% of last week",
                          lastWeekMinutes, maxAllowedMinutes)),
                !.appliedRules = Append(p.appliedRules,
                    Entry("WeeklyLoadCap", plannedMinutes, maxAllowedMinutes))]

applyWeeklyLoadCapRule(p, ctx) ==
    LET lastWeekMinutes == ctx.last7dStats.totalMinutes
        plannedMinutes == sumDurations(p.sessions)
        maxAllowedMinutes == roundTimes1_1(lastWeekMinutes)
        scale(session) ==
            IF session.sport # "rest" /\ session.durationMin > 0
            THEN LET newDuration ==
                        max(30, roundScaled(session.durationMin, maxAllowedMinutes,
                                            plannedMinutes))
                 IN  IF newDuration # session.durationMin
                     THEN [session EXCEPT
                            !.durationMin = newDuration,
                            !.notes = Append(session.notes,
                                Note("Duration adjusted for progressive load management",
                                     NoReason))]
                     ELSE session
            ELSE session
    IN  IF lastWeekMinutes = 0 THEN p
        ELSE IF plannedMinutes <= maxAllowedMinutes THEN p
        ELSE [p EXCEPT
                !.sessions = [idx \in 1 .. Len(p.sessions) |-> scale(p.sessions[idx])],
                !.warnings = Append(p.warnings,
                    Entry("Weekly load capped at 110% of last week",
                          lastWeekMinutes, maxAllowedMinutes)),
                !.appliedRules = Append(p.appliedRules,
                    Entry("WeeklyLoadCap", plannedMinutes, maxAllowedMinutes))]

----------------------------------------------------------------------------
(* plan-generator.ts, as listed in CHANGELOG.md *)

\* UserProfile, the fields the generator reads.  swimDays is modelled by
\* the set of its elements.
Profile(swimDays, bikeVo2Day, longBikeDay) ==
    [swimDays |-> swimDays, bikeVo2Day |-> bikeVo2Day, longBikeDay |-> longBikeDay]

DefaultProfile == Profile({"Wed", "Fri", "Sun_optional"}, "Thu", "Sun")

\* A session literal of the generator; notes is the text of the notes
\* property, "" when the literal has none.
Template(date, sport, title, durationMin, intensity, notes, tags) ==
    [date |-> date, sport |-> sport, title |-> <<title>>,
     durationMin |-> durationMin, intensity |-> intensity,
     notes |-> IF notes = "" THEN <<>> ELSE <<Note(notes, NoReason)>>,
     tags |-> tags]

\* return null
NoSession == <<>>

\* generateSessionForDay with a Thursday that ignores profile.bikeVo2Day
generateSessionForDay_AlwaysVo2(dayName, date, profile_) ==
    CASE dayName = "Mon" ->
            Template(date, "bike", "Bike Endurance", 60, "z2", "Easy spin, focus on cadence", {})
      [] dayName = "Tue" ->
            Template(date, "run", "Run Intervals", 55, "z4",
                     "Warm up 15min, 5x3min Z4 (2min rest), cool down", {})
      [] dayName = "Wed" ->
            IF "Wed" \in profile_.swimDays
            THEN Template(date, "swim", "Swim Technique", 50, "z2",
                          "Drills and technique work", {"technique"})
            ELSE Template(date, "rest", "Rest Day", 0, "z1", "", {})
      [] dayName = "Thu" ->
            IF dayName = "Thu"
            THEN Template(date, "bike", "Bike VO2 Max", 70, "z5",
                          "Warm up 20min, 5x5min Z5 (3min rest), cool down", {"vo2"})
            ELSE Template(date, "bike", "Bike Threshold", 70, "z4", "", {"threshold"})
      [] dayName = "Fri" ->
            IF "Fri" \in profile_.swimDays
            THEN Template(date, "swim", "Swim Intervals", 50, "z4",
                          "10x100m at threshold pace", {"intervals"})
            ELSE Template(date, "rest", "Rest Day", 0, "z1", "", {})
      [] dayName = "Sat" ->
            Template(date, "run", "Run Tempo", 50, "z3",
                     "Warm up 15min, 20min Z3, cool down", {})
      [] dayName = "Sun" ->
            IF dayName = profile_.longBikeDay
            THEN Template(date, "bike", "Long Bike", 180, "z2",
                          "Steady endurance ride, nutrition practice", {"long"})
            ELSE Template(date, "bike", "Bike Endurance", 90, "z2", "", {})
      [] OTHER -> NoSession

generateSessionForDay(dayName, date, profile_) ==
    CASE dayName = "Mon" ->
            Template(date, "bike", "Bike Endurance", 60, "z2", "Easy spin, focus on cadence", {})
      [] dayName = "Tue" ->
            Template(date, "run", "Run Intervals", 55, "z4",
                     "Warm up 15min, 5x3min Z4 (2min rest), cool down", {})
      [] dayName = "Wed" ->
            IF "Wed" \in profile_.swimDays
            THEN Template(date, "swim", "Swim Technique", 50, "z2",
                          "Drills and technique work", {"technique"})
            ELSE Template(date, "rest", "Rest Day", 0, "z1", "", {})
      [] dayName = "Thu" ->
            IF dayName = profile_.bikeVo2Day
            THEN Template(date, "bike", "Bike VO2 Max", 70, "z5",
                          "Warm up 20min, 5x5min Z5 (3min rest), cool down", {"vo2"})
            ELSE Template(date, "bike", "Bike Threshold", 70, "z4", "", {"threshold"})
      [] dayName = "Fri" ->
            IF "Fri" \in profile_.swimDays
            THEN Template(date, "swim", "Swim Intervals", 50, "z4",
                          "10x100m at threshold pace", {"intervals"})
            ELSE Template(date, "rest", "Rest Day", 0, "z1", "", {})
      [] dayName = "Sat" ->
            Template(date, "run", "Run Tempo", 50, "z3",
                     "Warm up 15min, 20min Z3, cool down", {})
      [] dayName = "Sun" ->
            IF dayName = profile_.longBikeDay
            THEN Template(date, "bike", "Long Bike", 180, "z2",
                          "Steady endurance ride, nutrition practice", {"long"})
            ELSE Template(date, "bike", "Bike Endurance", 90, "z2", "", {})
      [] OTHER -> NoSession

\* The for loop of generateDraftPlan from i on; addDays and format work on
\* the local calendar, so day i of the loop is dated startDate + i in every
\* time zone.
RECURSIVE generateLoop(_, _, _, _)
generateLoop(profile_, startDate, sessions, i) ==
    IF ~(i < 7) THEN sessions
    ELSE
    LET dateStr == startDate + i
        dayName == dayNameOf(dateStr)
        session == generateSessionForDay(dayName, dateStr, profile_)
    IN  generateLoop(profile_, startDate,
                     IF session # NoSession THEN Append(sessions, session) ELSE sessions,
                     i + 1)

\* generateDraftPlan leaving rest days out of the plan
generateDraftPlan_SkipsRest(profile_, startDate) ==
    [startDate |-> startDate,
     sessions |-> SelectSeq(generateLoop(profile_, startDate, <<>>, 0),
                            LAMBDA session : session.sport # "rest"),
     warnings |-> <<>>,
     appliedRules |-> <<>>]

generateDraftPlan(profile_, startDate) ==
    [startDate |-> startDate,
     sessions |-> generateLoop(profile_, startDate, <<>>, 0),
     warnings |-> <<>>,
     appliedRules |-> <<>>]

\* plan.sessions.find(...): the index of the first session dated on a
\* Sunday, 0 when there is none
findSunday(sessions) ==
    LET sundays == {idx \in 1 .. Len(sessions) : dayNameOf(sessions[idx].date) = "Sun"}
    IN  IF sundays = {} THEN 0
        ELSE CHOOSE idx \in sundays : \A other \in sundays : idx <= other

\* addOptionalSundaySwim without the test for the sentinel
addOptionalSundaySwim_NoSentinel(p, profile_) ==
    LET found == findSunday(p.sessions)
    IN  IF found # 0
        THEN LET sundaySession == p.sessions[found]
                 optionalSwim == Template(sundaySession.date, "swim", "Optional Easy Swim",
                                          35, "z1", "Recovery swim after long bike",
                                          {"optional"})
             IN  [p EXCEPT !.sessions = Append(p.sessions, optionalSwim)]
        ELSE p

addOptionalSundaySwim(p, profile_) ==
    IF "Sun_optional" \notin profile_.swimDays THEN p
    ELSE
    LET found == findSunday(p.sessions)
    IN  IF found # 0
        THEN LET sundaySession == p.sessions[found]
                 optionalSwim == Template(sundaySession.date, "swim", "Optional Easy Swim",
                                          35, "z1", "Recovery swim after long bike",
                                          {"optional"})
             IN  [p EXCEPT !.sessions = Append(p.sessions, optionalSwim)]
        ELSE p

----------------------------------------------------------------------------
(* Arrays and the objects that refer to them *)

\* No statement of the rule engine or of the generator assigns to a property
\* of a session or of a plan, or changes a tags array: every session and
\* every plan is built by an object literal.  What the code does change in
\* place are sessions, warnings and appliedRules arrays (sessions[idx] = ...,
\* push, sort).  A plan object is therefore modelled by the addresses of its
\* three arrays, and an array by its content at its address in the heap.

\* The WeekPlan value a plan object stands for
Deref(h, ref) ==
    [startDate |-> ref.startDate,
     sessions |-> h[ref.sessions],
     warnings |-> h[ref.warnings],
     appliedRules |-> h[ref.appliedRules]]

\* An array literal: a new array with the content given
alloc(h, content) == [heap |-> Append(h, content), addr |-> Len(h) + 1]

\* const copy = array in place of const copy = [...array]
spread_SameArray(h, addr) == [heap |-> h, addr |-> addr]

\* [...array]
spread(h, addr) == [heap |-> Append(h, h[addr]), addr |-> Len(h) + 1]

\* The array at addr after the writes that leave it with the content given
store(h, addr, content) == [h EXCEPT ![addr] = content]

\* generateDraftPlan: sessions = [], the pushes of the loop, and the
\* literals warnings: [] and appliedRules: []
heapGenerateDraftPlan(h, profile_, startDate) ==
    LET result == generateDraftPlan(profile_, startDate)
        sessions == alloc(h, <<>>)
        pushed == store(sessions.heap, sessions.addr, result.sessions)
        warnings == alloc(pushed, <<>>)
        appliedRules == alloc(warnings.heap, <<>>)
    IN  [heap |-> appliedRules.heap,
         ref |-> [startDate |-> startDate, sessions |-> sessions.addr,
                  warnings |-> warnings.addr, appliedRules |-> appliedRules.addr]]

\* addOptionalSundaySwim: returns plan itself, or a new object with the new
\* array [...plan.sessions, optionalSwim]
heapAddOptionalSundaySwim(h, p, profile_) ==
    IF "Sun_optional" \notin profile_.swimDays \/ findSunday(h[p.sessions]) = 0
    THEN [heap |-> h, ref |-> p]
    ELSE LET result == addOptionalSundaySwim(Deref(h, p), profile_)
             sessions == alloc(h, result.sessions)
         IN  [heap |-> sessions.heap, ref |-> [p EXCEPT !.sessions = sessions.addr]]

\* { ...weekPlan, warnings: [], appliedRules: [] }
heapFreshPlan(h, p) ==
    LET warnings == alloc(h, <<>>)
        appliedRules == alloc(warnings.heap, <<>>)
    IN  [heap |-> appliedRules.heap,
         ref |-> [p EXCEPT !.warnings = warnings.addr, !.appliedRules = appliedRules.addr]]

heapSwimRotation(h, p) ==
    LET result == applySwimRotationRule(Deref(h, p))
        sessions == spread(h, p.sessions)
        appliedRules == spread(sessions.heap, p.appliedRules)
        written == store(store(appliedRules.heap, sessions.addr, result.sessions),
                         appliedRules.addr, result.appliedRules)
    IN  [heap |-> written,
         ref |-> [p EXCEPT !.sessions = sessions.addr, !.appliedRules = appliedRules.addr]]

\* The three copies a rule starts with, the writes to them that leave them
\* with the content of result, and { ...plan, sessions, warnings, appliedRules }
heapRewrite(h, p, result) ==
    LET sessions == spread(h, p.sessions)
        warnings == spread(sessions.heap, p.warnings)
        appliedRules == spread(warnings.heap, p.appliedRules)
        written == store(store(store(appliedRules.heap, sessions.addr, result.sessions),
                               warnings.addr, result.warnings),
                         appliedRules.addr, result.appliedRules)
    IN  [heap |-> written,
         ref |-> [p EXCEPT !.sessions = sessions.addr, !.warnings = warnings.addr,
                           !.appliedRules = appliedRules.addr]]

heapReadinessDownshift(h, p, ctx) ==
    IF ctx.todayFatigue = <<>> \/ ctx.todayFatigue[1].readiness > 2
    THEN [heap |-> h, ref |-> p]
    ELSE heapRewrite(h, p, applyReadinessDownshiftRule(Deref(h, p), ctx))

heapNoHardHard(zone, h, p) ==
    heapRewrite(h, p, applyNoHardHardRule(zone, Deref(h, p)))

\* The second early return comes after the three copies were made
heapWeeklyLoadCap(h, p, ctx) ==
    IF ctx.last7dStats.totalMinutes = 0
    THEN [heap |-> h, ref |-> p]
    ELSE LET rewritten == heapRewrite(h, p, applyWeeklyLoadCapRule(Deref(h, p), ctx))
         IN  IF sumDurations(h[p.sessions]) <= roundTimes1_1(ctx.last7dStats.totalMinutes)
             THEN [heap |-> rewritten.heap, ref |-> p]
             ELSE rewritten

----------------------------------------------------------------------------
(* Inputs of the model *)

\* A session as a caller builds it: no notes yet, a one-part title
NewSession(date, sport, intensity, tags, durationMin) ==
    [date |-> date, sport |-> sport, title |-> <<sport>>,
     durationMin |-> durationMin, intensity |-> intensity,
     notes |-> <<>>, tags |-> tags]

\* Sequences of at most n elements of S
RECURSIVE SeqUpTo(_, _)
SeqUpTo(S, n) ==
    IF n = 0 THEN {<<>>}
    ELSE LET shorter == SeqUpTo(S, n - 1)
         IN  shorter \cup {Append(q, x) : q \in {r \in shorter : Len(r) = n - 1}, x \in S}

\* Sessions that differ in date, sport, intensity and tags
MixedSessions ==
    {NewSession(date, "run", "z2", {}, 60) : date \in Dates}
    \cup {NewSession(date, "bike", "z5", {"vo2", "long"}, 60) : date \in Dates}
    \cup {NewSession(date, "swim", "z2", {}, 60) : date \in Dates}

\* Sessions that differ in sport and duration
TimedSessions ==
    {NewSession(0, sport, "z2", {}, durationMin) :
        sport \in {"bike", "rest"}, durationMin \in {0, 20, 45, 100}}

NewPlan(startDate, sessions) ==
    [startDate |-> startDate, sessions |-> sessions,
     warnings |-> <<>>, appliedRules |-> <<>>]

\* The run does not follow the arrays of the plans
HeapUnused == heap = <<>> /\ planRef = <<>> /\ inputs = <<>>

\* The run has no worker
WorkerUnused == jobs = <<>> /\ slots = <<>> /\ db = <<>> /\ sent = <<>>

\* applyRules called on its own: the generator is not part of the run
NoDraft == NewPlan(0, <<>>)

Context(todayFatigue, totalMinutes) ==
    [last7dStats |-> [totalMinutes |-> totalMinutes], todayFatigue |-> todayFatigue]

\* plan.startDate of the mixed plans: Thursday 2024-03-28, so that sessions
\* fall before it, on it, on the day after it and later
Today == 1

Init ==
    /\ \E sessions \in SeqUpTo(MixedSessions, MaxSessions) :
            weekPlan = NewPlan(Today, sessions)
    /\ \E todayFatigue \in {<<>>, <<[readiness |-> 2]>>, <<[readiness |-> 3]>>},
          totalMinutes \in {100} :
            context = Context(todayFatigue, totalMinutes)
    /\ tz \in TimeZones
    /\ hist = <<>>
    /\ pc = "start"
    /\ profile = DefaultProfile
    /\ draft = NoDraft
    /\ HeapUnused
    /\ WorkerUnused

\* A hard session and a swim for every date: the swim is easy, and hard on
\* a Friday once SwimRotation has rewritten it
DowngradeSessions ==
    {NewSession(date, "bike", "z5", {"vo2", "long"}, 60) : date \in Dates}
    \cup {NewSession(date, "swim", "z2", {}, 60) : date \in Dates}

\* applyRules called on plans of hard sessions and swims
InitDowngrade ==
    /\ \E sessions \in SeqUpTo(DowngradeSessions, MaxSessions) :
            weekPlan = NewPlan(Today, sessions)
    /\ \E todayFatigue \in {<<>>, <<[readiness |-> 2]>>} :
            context = Context(todayFatigue, 100)
    /\ tz \in TimeZones
    /\ hist = <<>>
    /\ pc = "start"
    /\ profile = DefaultProfile
    /\ draft = NoDraft
    /\ HeapUnused
    /\ WorkerUnused

\* Runs of several intensities, with and without a hard tag, today and
\* tomorrow, and a swim on Friday
TaggedSessions ==
    {NewSession(date, "run", intensity, tags, 60) :
        date \in {Today, Today + 1},
        intensity \in {"z1", "z3", "z5"},
        tags \in {{}, {"vo2"}}}
    \cup {NewSession(2, "swim", "z2", {}, 60)}

\* applyRules called on plans of such sessions
InitIntensity ==
    /\ \E sessions \in SeqUpTo(TaggedSessions, MaxSessions) :
            weekPlan = NewPlan(Today, sessions)
    /\ \E todayFatigue \in {<<>>, <<[readiness |-> 2]>>} :
            context = Context(todayFatigue, 100)
    /\ tz \in TimeZones
    /\ hist = <<>>
    /\ pc = "start"
    /\ profile = DefaultProfile
    /\ draft = NoDraft
    /\ HeapUnused
    /\ WorkerUnused

\* Swim sessions that differ in date, intensity and tags
SwimSessions ==
    {NewSession(date, "swim", "z2", {}, 60) : date \in Dates}
    \cup {NewSession(date, "swim", "z5", {"technique"}, 60) : date \in Dates}
    \cup {NewSession(date, "swim", "z2", {"intervals", "vo2"}, 60) : date \in Dates}

\* plan.startDate of the swim plans: Friday 2024-03-29
SwimToday == 2

InitSwim ==
    /\ \E sessions \in SeqUpTo(SwimSessions, MaxSessions) :
            weekPlan = NewPlan(SwimToday, sessions)
    /\ \E todayFatigue \in {<<>>, <<[readiness |-> 2]>>} :
            context = Context(todayFatigue, 100)
    /\ tz \in TimeZones
    /\ hist = <<>>
    /\ pc = "start"
    /\ profile = DefaultProfile
    /\ draft = NoDraft
    /\ HeapUnused
    /\ WorkerUnused

\* Profiles that differ in every field the generator reads
Profiles ==
    {Profile(swimDays, bikeVo2Day, longBikeDay) :
        swimDays \in SUBSET {"Wed", "Fri", "Sun_optional"},
        bikeVo2Day \in {"Thu", "Tue"},
        longBikeDay \in {"Sun", "Sat"}}

\* One start date for each weekday
StartDates == 0 .. 6

\* Sessions of a plan a caller of addOptionalSundaySwim built: a Saturday
\* and two Sundays a week apart
CallerSessions ==
    {NewSession(date, "bike", "z2", {}, 60) : date \in {3, 4, 11}}

\* /plan either generates the draft or is handed one
InitPlan ==
    /\ profile \in Profiles
    /\ \/ /\ pc = "generate"
          /\ \E startDate \in StartDates : draft = NewPlan(startDate, <<>>)
       \/ /\ pc = "addSwim"
          /\ \E sessions \in SeqUpTo(CallerSessions, MaxSessions) :
                draft = NewPlan(3, sessions)
    /\ weekPlan = draft
    /\ \E todayFatigue \in {<<>>, <<[readiness |-> 2]>>}, totalMinutes \in {0, 400} :
            context = Context(todayFatigue, totalMinutes)
    /\ tz \in TimeZones
    /\ hist = <<>>
    /\ HeapUnused
    /\ WorkerUnused

\* The start dates of the week before Friday 2024-11-01, one for each
\* weekday
AutumnStartDates == 212 .. 218

\* /plan in the last week of October
InitAutumn ==
    /\ profile \in Profiles
    /\ pc = "generate"
    /\ \E startDate \in AutumnStartDates : draft = NewPlan(startDate, <<>>)
    /\ weekPlan = draft
    /\ \E todayFatigue \in {<<>>, <<[readiness |-> 2]>>}, totalMinutes \in {0, 400} :
            context = Context(todayFatigue, totalMinutes)
    /\ tz \in {"UTC", "Africa/Cairo"}
    /\ hist = <<>>
    /\ HeapUnused
    /\ WorkerUnused

\* /plan with the arrays of its plans followed: the draft is generated, or
\* addOptionalSundaySwim is handed a plan a caller built
InitHeap ==
    /\ profile \in Profiles
    /\ \/ /\ pc = "generate"
          /\ \E startDate \in StartDates : draft = NewPlan(startDate, <<>>)
          /\ heap = <<>>
          /\ planRef = <<>>
       \/ /\ pc = "addSwim"
          /\ \E sessions \in SeqUpTo(CallerSessions, MaxSessions) :
                /\ draft = NewPlan(3, sessions)
                /\ heap = <<sessions, <<>>, <<>>>>
          /\ planRef = [startDate |-> 3, sessions |-> 1, warnings |-> 2, appliedRules |-> 3]
    /\ weekPlan = draft
    /\ \E todayFatigue \in {<<>>, <<[readiness |-> 2]>>}, totalMinutes \in {0, 400} :
            context = Context(todayFatigue, totalMinutes)
    /\ tz \in TimeZones
    /\ hist = <<>>
    /\ inputs = <<>>
    /\ WorkerUnused

\* Sessions of every intensity with hard and other tags, on one date
AnySessions ==
    {NewSession(0, sport, intensity, tags, durationMin) :
        sport \in {"run", "rest"},
        intensity \in Intensity,
        tags \in SUBSET {"vo2", "threshold", "long", "technique"},
        durationMin \in {0, 60}}

\* The reasons the rules give to downgradeToEasy
Reasons ==
    {Entry("Low readiness", 2, 5), Entry("No back-to-back hard sessions allowed", 0, 0)}

\* downgradeToEasy called on one session, which weekPlan carries
InitSession ==
    /\ \E session \in AnySessions : weekPlan = NewPlan(0, <<session>>)
    /\ context = Context(<<>>, 0)
    /\ tz = "UTC"
    /\ hist = <<>>
    /\ pc = "start"
    /\ profile = DefaultProfile
    /\ draft = NoDraft
    /\ HeapUnused
    /\ WorkerUnused

InitLoad ==
    /\ \E sessions \in SeqUpTo(TimedSessions, MaxSessions) :
            weekPlan = NewPlan(0, sessions)
    /\ \E totalMinutes \in {0, 50, 100, 201} :
            context = Context(<<>>, totalMinutes)
    /\ tz \in TimeZones
    /\ hist = <<>>
    /\ pc = "start"
    /\ profile = DefaultProfile
    /\ draft = NoDraft
    /\ HeapUnused
    /\ WorkerUnused

----------------------------------------------------------------------------
(* applyRules, one step per statement *)

\* the current value of the local variable `plan` of applyRules
plan == hist[Len(hist)]

\* a copy that keeps the annotations of weekPlan
freshPlan_Keeps(wp) == wp

\* let plan = { ...weekPlan, warnings: [], appliedRules: [] }
freshPlan(wp) == [wp EXCEPT !.warnings = <<>>, !.appliedRules = <<>>]

Begin ==
    /\ pc = "start"
    /\ hist' = <<freshPlan(weekPlan)>>
    /\ pc' = "swimRotation"
    /\ UNCHANGED <<weekPlan, context, tz, profile, draft, heapVars, workerVars>>

SwimRotation ==
    /\ pc = "swimRotation"
    /\ hist' = Append(hist, applySwimRotationRule(plan))
    /\ pc' = "readinessDownshift"
    /\ UNCHANGED <<weekPlan, context, tz, profile, draft, heapVars, workerVars>>

ReadinessDownshift ==
    /\ pc = "readinessDownshift"
    /\ hist' = Append(hist, applyReadinessDownshiftRule(plan, context))
    /\ pc' = "noHardHard"
    /\ UNCHANGED <<weekPlan, context, tz, profile, draft, heapVars, workerVars>>

NoHardHard ==
    /\ pc = "noHardHard"
    /\ hist' = Append(hist, applyNoHardHardRule(tz, plan))
    /\ pc' = "weeklyLoadCap"
    /\ UNCHANGED <<weekPlan, context, tz, profile, draft, heapVars, workerVars>>

WeeklyLoadCap ==
    /\ pc = "weeklyLoadCap"
    /\ hist' = Append(hist, applyWeeklyLoadCapRule(plan, context))
    /\ pc' = "done"
    /\ UNCHANGED <<weekPlan, context, tz, profile, draft, heapVars, workerVars>>

\* The caller hands the returned plan to applyRules again
Reapply ==
    /\ pc = "done"
    /\ weekPlan' = plan
    /\ hist' = <<>>
    /\ pc' = "start"
    /\ UNCHANGED <<context, tz, profile, draft, heapVars, workerVars>>

\* const draftPlan = generateDraftPlan(profile, startDate)
Generate ==
    /\ pc = "generate"
    /\ draft' = generateDraftPlan(profile, draft.startDate)
    /\ pc' = "addSwim"
    /\ UNCHANGED <<weekPlan, context, tz, hist, profile, heapVars, workerVars>>

\* const planWithSwim = addOptionalSundaySwim(draftPlan, profile), which
\* is then handed to applyRules
AddSwim ==
    /\ pc = "addSwim"
    /\ weekPlan' = addOptionalSundaySwim(draft, profile)
    /\ pc' = "start"
    /\ UNCHANGED <<context, tz, hist, profile, draft, heapVars, workerVars>>

Next ==
    \/ Begin
    \/ SwimRotation
    \/ ReadinessDownshift
    \/ NoHardHard
    \/ WeeklyLoadCap
    \/ Reapply

Spec == Init /\ [][Next]_vars

SpecDowngrade == InitDowngrade /\ [][Next]_vars

SpecIntensity == InitIntensity /\ [][Next]_vars

SpecLoad == InitLoad /\ [][Next]_vars

\* The argument of a call: the object handed in and the value it stood for
Argument(h, ref) == [ref |-> ref, value |-> Deref(h, ref)]

HeapGenerate ==
    /\ pc = "generate"
    /\ LET r == heapGenerateDraftPlan(heap, profile, draft.startDate)
       IN  heap' = r.heap /\ planRef' = r.ref
    /\ pc' = "addSwim"
    /\ UNCHANGED <<weekPlan, context, tz, hist, profile, draft, inputs, workerVars>>

HeapAddSwim ==
    /\ pc = "addSwim"
    /\ inputs' = Append(inputs, Argument(heap, planRef))
    /\ LET r == heapAddOptionalSundaySwim(heap, planRef, profile)
       IN  heap' = r.heap /\ planRef' = r.ref
    /\ pc' = "start"
    /\ UNCHANGED <<weekPlan, context, tz, hist, profile, draft, workerVars>>

HeapBegin ==
    /\ pc = "start"
    /\ inputs' = Append(inputs, Argument(heap, planRef))
    /\ LET r == heapFreshPlan(heap, planRef)
       IN  heap' = r.heap /\ planRef' = r.ref
    /\ pc' = "swimRotation"
    /\ UNCHANGED <<weekPlan, context, tz, hist, profile, draft, workerVars>>

HeapSwimRotation ==
    /\ pc = "swimRotation"
    /\ LET r == heapSwimRotation(heap, planRef)
       IN  heap' = r.heap /\ planRef' = r.ref
    /\ pc' = "readinessDownshift"
    /\ UNCHANGED <<weekPlan, context, tz, hist, profile, draft, inputs, workerVars>>

HeapReadinessDownshift ==
    /\ pc = "readinessDownshift"
    /\ LET r == heapReadinessDownshift(heap, planRef, context)
       IN  heap' = r.heap /\ planRef' = r.ref
    /\ pc' = "noHardHard"
    /\ UNCHANGED <<weekPlan, context, tz, hist, profile, draft, inputs, workerVars>>

HeapNoHardHard ==
    /\ pc = "noHardHard"
    /\ LET r == heapNoHardHard(tz, heap, planRef)
       IN  heap' = r.heap /\ planRef' = r.ref
    /\ pc' = "weeklyLoadCap"
    /\ UNCHANGED <<weekPlan, context, tz, hist, profile, draft, inputs, workerVars>>

HeapWeeklyLoadCap ==
    /\ pc = "weeklyLoadCap"
    /\ LET r == heapWeeklyLoadCap(heap, planRef, context)
       IN  heap' = r.heap /\ planRef' = r.ref
    /\ pc' = "done"
    /\ UNCHANGED <<weekPlan, context, tz, hist, profile, draft, inputs, workerVars>>

NextHeap ==
    \/ HeapGenerate
    \/ HeapAddSwim
    \/ HeapBegin
    \/ HeapSwimRotation
    \/ HeapReadinessDownshift
    \/ HeapNoHardHard
    \/ HeapWeeklyLoadCap

SpecHeap == InitHeap /\ [][NextHeap]_vars

\* downgradeToEasy(session, reason), on the session handed in and then on
\* a session it returned; hist holds the results
Downgrade ==
    /\ Len(hist) < 2
    /\ \E reason \in Reasons :
            LET session == IF hist = <<>> THEN weekPlan.sessions[1]
                           ELSE hist[Len(hist)].sessions[1]
            IN  hist' = Append(hist, NewPlan(0, <<downgradeToEasy(session, reason)>>))
    /\ pc' = "done"
    /\ UNCHANGED <<weekPlan, context, tz, profile, draft, heapVars, workerVars>>

NextSession == Downgrade

SpecSession == InitSession /\ [][NextSession]_vars

NextPlan ==
    \/ Generate
    \/ AddSwim
    \/ Begin
    \/ SwimRotation
    \/ ReadinessDownshift
    \/ NoHardHard
    \/ WeeklyLoadCap

SpecPlan == InitPlan /\ [][NextPlan]_vars

SpecAutumn == InitAutumn /\ [][NextPlan]_vars

SpecSwim == InitSwim /\ [][Next]_vars

----------------------------------------------------------------------------
(* The worker: apps/worker/src/index.ts, db.ts, handlers.ts, and the bot's  *)
(* enqueueing in apps/bot/src/index.ts                                      *)

\* commandQueue.add(..., { attempts: 3, ... })
attempts == 3

\* new Worker(..., { concurrency: 5, ... })
concurrency == 5

Slots == 1 .. (IF MaxSlots <= concurrency THEN MaxSlots ELSE concurrency)

\* The one Telegram message followed: message_id of ctx.message
TheMessage == 1

\* A job as commandQueue.add creates it
NewJob(commandName) ==
    [data |-> [messageId |-> TheMessage, commandName |-> commandName],
     state |-> "waiting", attemptsMade |-> 0]

IdleSlot == [job |-> 0, at |-> "idle"]

\* The processor returned: the job is completed and the slot is free
Completed(s) ==
    /\ jobs' = [jobs EXCEPT ![slots[s].job].state = "completed"]
    /\ slots' = [slots EXCEPT ![s] = IdleSlot]

\* The bot receives the message (again) and adds a job for it; it sets no
\* jobId, so every add makes a job of its own
Enqueue ==
    /\ Len(jobs) < MaxDeliveries
    /\ jobs' = Append(jobs, NewJob(jobs[1].data.commandName))
    /\ UNCHANGED <<slots, db, sent>>

\* A free slot starts an attempt of a waiting job
Take(s, j) ==
    /\ slots[s].at = "idle"
    /\ jobs[j].state = "waiting"
    /\ jobs' = [jobs EXCEPT ![j].state = "active", ![j].attemptsMade = @ + 1]
    /\ slots' = [slots EXCEPT ![s] = [job |-> j, at |-> "check"]]
    /\ UNCHANGED <<db, sent>>

\* checkMessageProcessed and the early return
CheckProcessed(s) ==
    /\ slots[s].at = "check"
    /\ IF jobs[slots[s].job].data.messageId \in db.processedMessages
       THEN Completed(s)
       ELSE /\ slots' = [slots EXCEPT ![s].at = "handle"]
            /\ UNCHANGED jobs
    /\ UNCHANGED <<db, sent>>

\* The switch on commandName: handleLog creates a Workout row, handlePlan
\* only reads
Handle(s) ==
    /\ slots[s].at = "handle"
    /\ db' = IF jobs[slots[s].job].data.commandName = "log"
             THEN [db EXCEPT !.workouts = @ + 1]
             ELSE db
    /\ slots' = [slots EXCEPT ![s].at = "send"]
    /\ UNCHANGED <<jobs, sent>>

\* api.sendMessage(telegramChatId, response)
Send(s) ==
    /\ slots[s].at = "send"
    /\ sent' = [sent EXCEPT !.responses = @ + 1]
    /\ slots' = [slots EXCEPT ![s].at = "mark"]
    /\ UNCHANGED <<jobs, db>>

\* markMessageProcessed: create fails on the unique key
\* (userId, telegramMessageId) when the row is there
Mark(s) ==
    /\ slots[s].at = "mark"
    /\ IF jobs[slots[s].job].data.messageId \in db.processedMessages
       THEN /\ slots' = [slots EXCEPT ![s].at = "catch"]
            /\ UNCHANGED <<jobs, db>>
       ELSE /\ db' = [db EXCEPT !.processedMessages =
                            @ \cup {jobs[slots[s].job].data.messageId}]
            /\ Completed(s)
    /\ UNCHANGED sent

\* An awaited call of the try block throws before it has had its effect:
\* the database or Telegram cannot be reached
Fail(s) ==
    /\ slots[s].at \in {"check", "handle", "send", "mark"}
    /\ slots' = [slots EXCEPT ![s].at = "catch"]
    /\ UNCHANGED <<jobs, db, sent>>

\* A catch block that also records the message as processed
Catch_Marks(s) ==
    /\ slots[s].at = "catch"
    /\ \E delivered \in BOOLEAN :
            sent' = IF delivered THEN [sent EXCEPT !.errors = @ + 1] ELSE sent
    /\ jobs' = [jobs EXCEPT ![slots[s].job].state =
                    IF jobs[slots[s].job].attemptsMade < attempts
                    THEN "waiting" ELSE "failed"]
    /\ slots' = [slots EXCEPT ![s] = IdleSlot]
    /\ db' = [db EXCEPT !.processedMessages =
                    @ \cup {jobs[slots[s].job].data.messageId}]

\* The catch block: the error message is sent or not, and the error is
\* thrown again; the queue retries the job while it has attempts left
Catch(s) ==
    /\ slots[s].at = "catch"
    /\ \E delivered \in BOOLEAN :
            sent' = IF delivered THEN [sent EXCEPT !.errors = @ + 1] ELSE sent
    /\ jobs' = [jobs EXCEPT ![slots[s].job].state =
                    IF jobs[slots[s].job].attemptsMade < attempts
                    THEN "waiting" ELSE "failed"]
    /\ slots' = [slots EXCEPT ![s] = IdleSlot]
    /\ UNCHANGED db

\* The run has no plan
EngineUnused ==
    /\ weekPlan = NoDraft
    /\ context = Context(<<>>, 0)
    /\ tz = "UTC"
    /\ hist = <<>>
    /\ pc = "start"
    /\ profile = DefaultProfile
    /\ draft = NoDraft
    /\ HeapUnused

engineVars == <<weekPlan, context, tz, hist, pc, profile, draft, heapVars>>

InitWorker ==
    /\ \E commandName \in {"log", "plan"} : jobs = <<NewJob(commandName)>>
    /\ slots = [s \in Slots |-> IdleSlot]
    /\ db = [processedMessages |-> {}, workouts |-> 0]
    /\ sent = [responses |-> 0, errors |-> 0]
    /\ EngineUnused

NextWorker ==
    \/ Enqueue /\ UNCHANGED engineVars
    \/ \E s \in Slots :
        \/ \E j \in 1 .. Len(jobs) : Take(s, j) /\ UNCHANGED engineVars
        \/ CheckProcessed(s) /\ UNCHANGED engineVars
        \/ Handle(s) /\ UNCHANGED engineVars
        \/ Send(s) /\ UNCHANGED engineVars
        \/ Mark(s) /\ UNCHANGED engineVars
        \/ Fail(s) /\ UNCHANGED engineVars
        \/ Catch(s) /\ UNCHANGED engineVars

SpecWorker == InitWorker /\ [][NextWorker]_vars

----------------------------------------------------------------------------
(* Values of `plan` inside applyRules *)

Returned == pc = "done"

AfterReset == hist[1]
AfterSwimRotation == hist[2]
AfterReadinessDownshift == hist[3]
AfterNoHardHard == hist[4]
AfterWeeklyLoadCap == hist[5]

IsPrefix(s, t) == Len(s) <= Len(t) /\ SubSeq(t, 1, Len(s)) = s

Indices(p) == 1 .. Len(p.sessions)

HardOn(p, date) ==
    {idx \in Indices(p) : p.sessions[idx].date = date /\ isHardSession(p.sessions[idx])}

----------------------------------------------------------------------------
(* NoHardHard *)

\* C1: in the plan applyRules returns, no two neighbouring sessions whose
\* dates are one calendar day apart are both hard.
C1_NoAdjacentHardPair ==
    Returned =>
        \A idx \in Indices(plan) :
            (idx > 1 /\ plan.sessions[idx].date = plan.sessions[idx - 1].date + 1)
                => ~(isHardSession(plan.sessions[idx - 1])
                     /\ isHardSession(plan.sessions[idx]))

\* C2: in the plan applyRules returns, no day with a hard session is
\* followed by a day with a hard session, also when a date carries several
\* sessions.  Stated for a process running in UTC, where midnights are
\* always 24 hours apart.
C2_NoConsecutiveHardDays ==
    (Returned /\ tz = "UTC") =>
        \A date \in Dates :
            HardOn(plan, date) # {} => HardOn(plan, date + 1) = {}

----------------------------------------------------------------------------
(* applyRules: order of the rules, warnings and appliedRules *)

RuleRank(entry) ==
    CASE entry.text = "SwimRotation" -> 1
      [] entry.text = "ReadinessDownshift" -> 2
      [] entry.text = "NoHardHard" -> 3
      [] entry.text = "WeeklyLoadCap" -> 4
      [] OTHER -> 0

\* C3: every rule keeps the warnings and appliedRules it received as a
\* prefix of those it returns, and the returned appliedRules name rules in
\* the order SwimRotation, ReadinessDownshift, NoHardHard, WeeklyLoadCap,
\* each at most once.
C3_RulesInOrder ==
    /\ \A k \in 2 .. Len(hist) :
            /\ IsPrefix(hist[k - 1].warnings, hist[k].warnings)
            /\ IsPrefix(hist[k - 1].appliedRules, hist[k].appliedRules)
    /\ Returned =>
            /\ \A i \in 1 .. Len(plan.appliedRules) : RuleRank(plan.appliedRules[i]) > 0
            /\ \A i \in 2 .. Len(plan.appliedRules) :
                    RuleRank(plan.appliedRules[i - 1]) < RuleRank(plan.appliedRules[i])

\* All four rules fired in one call
C3_Witness ==
    Returned /\ Len(plan.appliedRules) = 4 /\ Len(plan.warnings) = 3

\* The entries the rule that produced hist[k] appended
AddedWarnings(k) ==
    SubSeq(hist[k].warnings, Len(hist[k - 1].warnings) + 1, Len(hist[k].warnings))

AddedRules(k) ==
    SubSeq(hist[k].appliedRules, Len(hist[k - 1].appliedRules) + 1,
           Len(hist[k].appliedRules))

\* C4: the returned warnings and appliedRules consist of exactly the
\* entries the four rules appended during this call, whatever the plan
\* handed in carried.
C4_AnnotationsReset ==
    Returned =>
        /\ plan.warnings =
                AddedWarnings(2) \o AddedWarnings(3) \o AddedWarnings(4) \o AddedWarnings(5)
        /\ plan.appliedRules =
                AddedRules(2) \o AddedRules(3) \o AddedRules(4) \o AddedRules(5)

\* applyRules was called on a plan that carried annotations and returned
\* fewer of them
C4_Witness ==
    /\ Returned
    /\ Len(weekPlan.appliedRules) = 4
    /\ Len(weekPlan.warnings) = 3
    /\ Len(plan.appliedRules) < 4
    /\ Len(plan.warnings) < 3

----------------------------------------------------------------------------
(* ReadinessDownshift *)

LowReadiness == context.todayFatigue # <<>> /\ context.todayFatigue[1].readiness <= 2

\* hist[3] is ReadinessDownshift's result, hist[2] its argument
ReadinessDownshiftRan == Len(hist) >= 3

\* Sessions ReadinessDownshift has to downgrade
DueToday == HardOn(AfterSwimRotation, AfterSwimRotation.startDate)

\* C5: ReadinessDownshift returns its argument when todayFatigue is absent
\* or readiness > 2; otherwise every hard session dated startDate comes out
\* with intensity z2 and not hard, and one warning and one appliedRules
\* entry are appended exactly when there was such a session.
C5_ReadinessDownshift ==
    ReadinessDownshiftRan =>
        IF ~LowReadiness
        THEN AfterReadinessDownshift = AfterSwimRotation
        ELSE /\ \A idx \in DueToday :
                    /\ AfterReadinessDownshift.sessions[idx].intensity = "z2"
                    /\ ~isHardSession(AfterReadinessDownshift.sessions[idx])
             /\ Len(AddedWarnings(3)) = (IF DueToday # {} THEN 1 ELSE 0)
             /\ Len(AddedRules(3)) = (IF DueToday # {} THEN 1 ELSE 0)

\* Two sessions were downgraded for low readiness
C5_Witness ==
    /\ ReadinessDownshiftRan
    /\ LowReadiness
    /\ Cardinality(DueToday) = 2
    /\ Len(AddedWarnings(3)) = 1

\* C5 also needs the no-op side to happen
C5_WitnessNoOp ==
    /\ ReadinessDownshiftRan
    /\ ~LowReadiness
    /\ DueToday # {}

\* C6: ReadinessDownshift leaves every session not dated startDate as it
\* was; and when it downgraded a session, the sessions of the following day
\* that were hard are all still hard in the plan applyRules returns.
C6_ReadinessLocality ==
    /\ ReadinessDownshiftRan =>
            \A idx \in Indices(AfterSwimRotation) :
                AfterSwimRotation.sessions[idx].date # AfterSwimRotation.startDate
                    => AfterReadinessDownshift.sessions[idx] = AfterSwimRotation.sessions[idx]
    /\ (Returned /\ LowReadiness /\ DueToday # {}) =>
            Cardinality(HardOn(plan, plan.startDate + 1))
                = Cardinality(HardOn(AfterSwimRotation, plan.startDate + 1))

\* Today's hard session was downgraded and tomorrow's is still hard
C6_Witness ==
    /\ Returned
    /\ LowReadiness
    /\ DueToday # {}
    /\ HardOn(plan, plan.startDate + 1) # {}

----------------------------------------------------------------------------
(* WeeklyLoadCap *)

lastWeekMinutes == context.last7dStats.totalMinutes

maxAllowed == roundTimes1_1(lastWeekMinutes)

\* planned minutes before WeeklyLoadCap
plannedBefore == sumDurations(AfterNoHardHard.sessions)

RECURSIVE sumNonRest(_)
sumNonRest(sessions) ==
    IF sessions = <<>> THEN 0
    ELSE sumNonRest(SubSeq(sessions, 1, Len(sessions) - 1))
         + (IF sessions[Len(sessions)].sport # "rest"
            THEN sessions[Len(sessions)].durationMin ELSE 0)

sessionCount == Len(plan.sessions)

Larger(a, b) == IF a >= b THEN a ELSE b

\* WeeklyLoadCap took its scaling branch
Scaled == Returned /\ lastWeekMinutes # 0 /\ plannedBefore > maxAllowed

\* the sessions WeeklyLoadCap rescales
Scalable(session) == session.sport # "rest" /\ session.durationMin > 0

\* C7 as stated: once the planned minutes exceed 1.10 x lastWeekMinutes, the
\* non-rest minutes after the rule are at most max(maxAllowed, 30 x
\* sessionCount).
C7_BoundByMax ==
    (Returned /\ lastWeekMinutes > 0 /\ 10 * plannedBefore > 11 * lastWeekMinutes)
        => sumNonRest(plan.sessions) <= Larger(maxAllowed, 30 * sessionCount)

\* C7 amended: under the same condition the non-rest minutes after the rule
\* are at most maxAllowed + 30 x sessionCount.
C7_BoundBySum ==
    (Returned /\ lastWeekMinutes > 0 /\ 10 * plannedBefore > 11 * lastWeekMinutes)
        => sumNonRest(plan.sessions) <= maxAllowed + 30 * sessionCount

\* The rule scaled a plan, and the floor left it above both maxAllowed and
\* 30 x sessionCount
C7_Witness ==
    /\ Scaled
    /\ 10 * plannedBefore > 11 * lastWeekMinutes
    /\ sumNonRest(plan.sessions) > Larger(maxAllowed, 30 * sessionCount)
    /\ \E idx \in Indices(plan) :
            /\ AfterNoHardHard.sessions[idx].durationMin < 30
            /\ plan.sessions[idx].durationMin = 30

\* C8: with a previous week on record and no session raised to the 30
\* minute floor, the minutes of all sessions of the returned plan are at
\* most maxAllowed.  Stated for plans whose rest sessions have no duration.
C8_CappedAt110Percent ==
    (/\ Returned
     /\ lastWeekMinutes > 0
     /\ \A idx \in Indices(plan) :
            plan.sessions[idx].sport = "rest" => plan.sessions[idx].durationMin = 0
     /\ Scaled =>
            \A idx \in Indices(plan) :
                AfterNoHardHard.sessions[idx].sport # "rest" =>
                    roundScaled(AfterNoHardHard.sessions[idx].durationMin,
                                maxAllowed, plannedBefore) >= 30)
        => sumDurations(plan.sessions) <= maxAllowed

\* C9: WeeklyLoadCap returns its argument, sessions, warnings and
\* appliedRules included, when there is no previous week on record or the
\* planned minutes are at most round(lastWeekMinutes x 1.10).
C9_LoadCapNoOp ==
    (Returned /\ (lastWeekMinutes = 0 \/ plannedBefore <= maxAllowed))
        => AfterWeeklyLoadCap = AfterNoHardHard

\* Both no-op cases on a plan with minutes to scale
C9_Witness ==
    /\ Returned
    /\ lastWeekMinutes # 0
    /\ plannedBefore = maxAllowed
    /\ \E idx \in Indices(plan) :
            Scalable(plan.sessions[idx]) /\ plan.sessions[idx].durationMin < 30

C9_WitnessNoHistory ==
    Returned /\ lastWeekMinutes = 0 /\ plannedBefore > 100

\* r is x rounded to the nearest integer, halves up, for x = num / den
IsRounded(r, num, den) == 2 * den * r <= 2 * num + den /\ 2 * num + den < 2 * den * (r + 1)

----------------------------------------------------------------------------
(* appliedRules against the sessions *)

\* C11: a rule's entry is in appliedRules only if at least one session
\* differs between that rule's input and its output.
C11_EntryOnlyIfChanged ==
    \A k \in 2 .. Len(hist) :
        AddedRules(k) # <<>> => hist[k].sessions # hist[k - 1].sessions

----------------------------------------------------------------------------
(* SwimRotation *)

\* hist[2] is SwimRotation's result, hist[1] its argument
SwimRotationRan == Len(hist) >= 2

\* Sessions SwimRotation has to rewrite
DueRotation ==
    {idx \in Indices(AfterReset) :
        needsTechnique(AfterReset.sessions[idx]) \/ needsIntervals(AfterReset.sessions[idx])}

\* C12: SwimRotation applied to its own output returns that output: no
\* session changes and no appliedRules entry is added.
C12_SwimRotationIdempotent ==
    SwimRotationRan =>
        applySwimRotationRule(AfterSwimRotation) = AfterSwimRotation

\* SwimRotation rewrote a Wednesday swim and a Friday swim
C12_Witness ==
    /\ SwimRotationRan
    /\ \E i, j \in DueRotation :
            /\ needsTechnique(AfterReset.sessions[i])
            /\ needsIntervals(AfterReset.sessions[j])
    /\ AddedRules(2) # <<>>

IsSwimOn(session, dayName) == session.sport = "swim" /\ dayNameOf(session.date) = dayName

SwimRotationEntries(p) ==
    {i \in 1 .. Len(p.appliedRules) : p.appliedRules[i].text = "SwimRotation"}

\* C13: in the plan applyRules returns every Wednesday swim is tagged
\* technique and every Friday swim is tagged intervals; SwimRotation sets a
\* Friday swim that was not tagged intervals to z4; and the returned
\* appliedRules hold exactly one SwimRotation entry when a swim was
\* rewritten.
C13_SwimRotation ==
    /\ Returned =>
            \A idx \in Indices(plan) :
                /\ IsSwimOn(plan.sessions[idx], "Wed") => "technique" \in plan.sessions[idx].tags
                /\ IsSwimOn(plan.sessions[idx], "Fri") => "intervals" \in plan.sessions[idx].tags
    /\ SwimRotationRan =>
            \A idx \in Indices(AfterReset) :
                (IsSwimOn(AfterReset.sessions[idx], "Fri")
                 /\ "intervals" \notin AfterReset.sessions[idx].tags)
                    => AfterSwimRotation.sessions[idx].intensity = "z4"
    /\ (Returned /\ AfterSwimRotation.sessions # AfterReset.sessions)
            => Cardinality(SwimRotationEntries(plan)) = 1

\* A Friday swim was rewritten to z4 intervals, then downgraded by a later
\* rule, and is returned still tagged intervals
C13_Witness ==
    /\ Returned
    /\ Cardinality(SwimRotationEntries(plan)) = 1
    /\ \E idx \in DueRotation : needsIntervals(AfterReset.sessions[idx])
    /\ \E idx \in Indices(plan) :
            /\ IsSwimOn(plan.sessions[idx], "Fri")
            /\ plan.sessions[idx].title = <<"Swim Intervals", "(downgraded to Z2)">>
            /\ plan.sessions[idx].tags = {"intervals"}

----------------------------------------------------------------------------
(* The plan generator *)

\* draft is what generateDraftPlan returned
Drafted == pc # "generate" /\ draft = generateDraftPlan(profile, draft.startDate)

\* addOptionalSundaySwim has returned weekPlan
SwimAdded == pc \notin {"generate", "addSwim"}

\* C15: generateDraftPlan returns exactly 7 sessions dated startDate,
\* startDate + 1, ..., startDate + 6 in that order, each weekday once, with
\* empty warnings and appliedRules.
C15_SevenDays ==
    Drafted =>
        /\ Len(draft.sessions) = 7
        /\ \A idx \in Indices(draft) : draft.sessions[idx].date = draft.startDate + idx - 1
        /\ \A i, j \in Indices(draft) :
                dayNameOf(draft.sessions[i].date) = dayNameOf(draft.sessions[j].date) => i = j
        /\ draft.warnings = <<>>
        /\ draft.appliedRules = <<>>

\* A week generated from a Sunday for a profile without swim days: rest
\* days are sessions of the plan
C15_Witness ==
    /\ Drafted
    /\ dayNameOf(draft.startDate) = "Sun"
    /\ profile.swimDays = {}
    /\ \E idx \in Indices(draft) : draft.sessions[idx].sport = "rest"

\* The template of C16: sport, minutes, intensity and tags of a weekday
Expected(dayName, profile_) ==
    CASE dayName = "Mon" -> <<"bike", 60, "z2", {}>>
      [] dayName = "Tue" -> <<"run", 55, "z4", {}>>
      [] dayName = "Wed" -> IF "Wed" \in profile_.swimDays
                            THEN <<"swim", 50, "z2", {"technique"}>>
                            ELSE <<"rest", 0, "z1", {}>>
      [] dayName = "Thu" -> IF profile_.bikeVo2Day = "Thu"
                            THEN <<"bike", 70, "z5", {"vo2"}>>
                            ELSE <<"bike", 70, "z4", {"threshold"}>>
      [] dayName = "Fri" -> IF "Fri" \in profile_.swimDays
                            THEN <<"swim", 50, "z4", {"intervals"}>>
                            ELSE <<"rest", 0, "z1", {}>>
      [] dayName = "Sat" -> <<"run", 50, "z3", {}>>
      [] dayName = "Sun" -> IF profile_.longBikeDay = "Sun"
                            THEN <<"bike", 180, "z2", {"long"}>>
                            ELSE <<"bike", 90, "z2", {}>>

HardDays(profile_) ==
    {"Tue", "Thu"} \cup (IF "Fri" \in profile_.swimDays THEN {"Fri"} ELSE {})

\* C16: every session of a draft plan has the sport, minutes, intensity and
\* tags the template gives for its weekday and the profile, whatever the
\* start date; its hard sessions fall exactly on Tuesday, Thursday and, when
\* swimDays contains Fri, Friday; and durationMin is 0 only for rest.
C16_WeekdayTemplate ==
    Drafted =>
        \A idx \in Indices(draft) :
            LET session == draft.sessions[idx]
                dayName == dayNameOf(session.date)
            IN  /\ <<session.sport, session.durationMin, session.intensity, session.tags>>
                        = Expected(dayName, profile)
                /\ isHardSession(session) <=> dayName \in HardDays(profile)
                /\ session.durationMin = 0 <=> session.sport = "rest"

\* A week that starts on a Saturday, for a profile whose VO2 day is not
\* Thursday and which has no Friday swim
C16_Witness ==
    /\ Drafted
    /\ dayNameOf(draft.startDate) = "Sat"
    /\ profile.bikeVo2Day # "Thu"
    /\ "Fri" \notin profile.swimDays
    /\ \E idx \in Indices(draft) : draft.sessions[idx].tags = {"threshold"}

\* Indices of the sessions dated on a Sunday
Sundays(p) == {idx \in Indices(p) : getDay(p.sessions[idx].date) = 0}

FirstSunday(p) == CHOOSE idx \in Sundays(p) : \A other \in Sundays(p) : idx <= other

\* C17: addOptionalSundaySwim returns the plan unchanged when swimDays lacks
\* Sun_optional or the plan has no session dated on a Sunday; otherwise it
\* appends one session (swim, 35 minutes, z1, tagged optional) dated as the
\* plan's first Sunday session and changes nothing else.
C17_OptionalSundaySwim ==
    SwimAdded =>
        IF "Sun_optional" \notin profile.swimDays \/ Sundays(draft) = {}
        THEN weekPlan = draft
        ELSE LET added == weekPlan.sessions[Len(weekPlan.sessions)]
             IN  /\ Len(weekPlan.sessions) = Len(draft.sessions) + 1
                 /\ SubSeq(weekPlan.sessions, 1, Len(draft.sessions)) = draft.sessions
                 /\ added.sport = "swim"
                 /\ added.durationMin = 35
                 /\ added.intensity = "z1"
                 /\ added.tags = {"optional"}
                 /\ added.date = draft.sessions[FirstSunday(draft)].date
                 /\ weekPlan.warnings = draft.warnings
                 /\ weekPlan.appliedRules = draft.appliedRules
                 /\ weekPlan.startDate = draft.startDate

\* The swim was added to a plan whose first Sunday session is not its
\* earliest Sunday
C17_Witness ==
    /\ SwimAdded
    /\ "Sun_optional" \in profile.swimDays
    /\ Cardinality(Sundays(draft)) = 2
    /\ \E idx \in Sundays(draft) :
            draft.sessions[idx].date < draft.sessions[FirstSunday(draft)].date
    /\ Len(weekPlan.sessions) = Len(draft.sessions) + 1

\* The plan has a Sunday session and the profile lacks the sentinel
C17_WitnessNoSentinel ==
    /\ SwimAdded
    /\ "Sun_optional" \notin profile.swimDays
    /\ Sundays(draft) # {}

\* The profile has the sentinel and the plan has no Sunday session
C17_WitnessNoSunday ==
    /\ SwimAdded
    /\ "Sun_optional" \in profile.swimDays
    /\ Sundays(draft) = {}
    /\ draft.sessions # <<>>

OrderedByDate(sessions) ==
    \A idx \in 2 .. Len(sessions) : sessions[idx - 1].date <= sessions[idx].date

\* C18: the sessions of the plan generateDraftPlan returns, of the plan
\* addOptionalSundaySwim returns for a generated plan, and of the plan
\* applyRules returns are ordered by date ascending.
C18_OrderedByDate ==
    /\ Drafted => OrderedByDate(draft.sessions)
    /\ (Drafted /\ SwimAdded) => OrderedByDate(weekPlan.sessions)
    /\ Returned => OrderedByDate(plan.sessions)

----------------------------------------------------------------------------
(* Inputs are not changed *)

\* The plan the pipeline holds now
Held == Deref(heap, planRef)

\* C14: after every call of generateDraftPlan, addOptionalSundaySwim and
\* applyRules, and after every statement inside them, each plan that was
\* handed to a call still has the sessions, warnings and appliedRules it had
\* when it was handed in.
C14_InputsKept ==
    \A k \in 1 .. Len(inputs) : Deref(heap, inputs[k].ref) = inputs[k].value

\* applyRules returned a plan whose sessions are those of its input put in
\* another order and rewritten, and addOptionalSundaySwim before it returned
\* more sessions than it was handed
C14_Witness ==
    /\ pc = "done"
    /\ Len(inputs) = 2
    /\ Len(inputs[2].value.sessions) > Len(inputs[1].value.sessions)
    /\ ~OrderedByDate(inputs[2].value.sessions)
    /\ OrderedByDate(Held.sessions)
    /\ \E idx \in Indices(Held) :
            \A other \in Indices(inputs[2].value) :
                Held.sessions[idx] # inputs[2].value.sessions[other]
    /\ Held.warnings # <<>>

\* addOptionalSundaySwim returned the object it was handed, and applyRules
\* returned sessions equal to those it was handed
C14_WitnessShared ==
    /\ pc = "done"
    /\ Len(inputs) = 2
    /\ inputs[1].ref = inputs[2].ref
    /\ Held.sessions = inputs[2].value.sessions

----------------------------------------------------------------------------
(* The worker *)

\* C19: for one (user, messageId) the Workout row of /log is created at
\* most once and the reply is sent at most once, whatever is delivered
\* again, retried, fails, or runs in two slots at once.
C19_AtMostOnce ==
    /\ db.workouts <= 1
    /\ sent.responses <= 1

----------------------------------------------------------------------------
(* NoHardHard on runs of hard days *)

SessionsOn(p, date) == {idx \in Indices(p) : p.sessions[idx].date = date}

\* The dates first, ..., first + k - 1 carry one session each, all of them
\* hard, and the run begins at first: the day before has no hard session
HardRun(p, first, k) ==
    /\ HardOn(p, first - 1) = {}
    /\ \A i \in 0 .. k - 1 :
            /\ Cardinality(SessionsOn(p, first + i)) = 1
            /\ HardOn(p, first + i) # {}

\* C20: of a run of k hard sessions on k consecutive dates, one per date,
\* NoHardHard leaves the 1st, 3rd, ... hard and downgrades the 2nd, 4th, ...
C20_AlternateDowngrade ==
    Len(hist) >= 4 =>
        \A first \in Dates, k \in 1 .. MaxDay + 1 :
            HardRun(AfterReadinessDownshift, first, k) =>
                \A i \in 0 .. k - 1 :
                    (HardOn(AfterNoHardHard, first + i) # {}) <=> (i % 2 = 0)

----------------------------------------------------------------------------
(* NoHardHard: when it downgrades *)

\* hist[4] is NoHardHard's result, hist[3] its argument
NoHardHardRan == Len(hist) >= 4

\* NoHardHard's argument in date order, as the rule walks it
Walked == sortByDate(AfterReadinessDownshift.sessions)

\* The positions where NoHardHard's result differs from what it walked
Downgraded == {idx \in 1 .. Len(Walked) : AfterNoHardHard.sessions[idx] # Walked[idx]}

\* C21: NoHardHard changes a session only if the session just before it in
\* date order is dated exactly one day earlier and is hard, before and after
\* the rule; sessions after a missing date or after an easy day stay as they
\* were; and no warning or appliedRules entry is added when no session was
\* changed.
C21_DowngradeOnlyAfterHardDay ==
    NoHardHardRan =>
        /\ \A idx \in Downgraded :
                /\ idx > 1
                /\ Walked[idx - 1].date + 1 = Walked[idx].date
                /\ isHardSession(Walked[idx - 1])
                /\ isHardSession(AfterNoHardHard.sessions[idx - 1])
                /\ isHardSession(Walked[idx])
        /\ Downgraded = {} => (AddedWarnings(4) = <<>> /\ AddedRules(4) = <<>>)

\* Two hard sessions two days apart, nothing between them: both are left
\* hard and nothing is recorded
C21_Witness ==
    /\ NoHardHardRan
    /\ Len(Walked) = 2
    /\ Walked[1].date + 2 = Walked[2].date
    /\ isHardSession(Walked[1])
    /\ isHardSession(Walked[2])
    /\ AfterNoHardHard.sessions = Walked
    /\ AddedRules(4) = <<>>

\* Two hard sessions with an easy day between them
C21_WitnessEasyDay ==
    /\ NoHardHardRan
    /\ Len(Walked) = 3
    /\ Walked[1].date + 1 = Walked[2].date
    /\ Walked[2].date + 1 = Walked[3].date
    /\ isHardSession(Walked[1])
    /\ ~isHardSession(Walked[2])
    /\ isHardSession(Walked[3])
    /\ Downgraded = {}

\* A session was downgraded
C21_WitnessDowngraded ==
    NoHardHardRan /\ Downgraded # {} /\ AddedRules(4) # <<>>

----------------------------------------------------------------------------
(* isHardSession and downgradeToEasy *)

\* The argument of the k-th call of downgradeToEasy and its result
Argument_(k) == IF k = 1 THEN weekPlan.sessions[1] ELSE hist[k - 1].sessions[1]

Result_(k) == hist[k].sessions[1]

HardAsStated(session) ==
    \/ session.intensity = "z4"
    \/ session.intensity = "z5"
    \/ "vo2" \in session.tags
    \/ "threshold" \in session.tags

\* C22: downgradeToEasy(s, r) is not hard: its intensity is z2 and it has
\* neither tag vo2 nor threshold; it has the date, sport and durationMin of
\* s and the tags of s other than vo2 and threshold.  isHardSession(s) is
\* true exactly when the intensity of s is z4 or z5 or a tag of s is vo2 or
\* threshold.
C22_DowngradeNotHard ==
    /\ isHardSession(weekPlan.sessions[1]) <=> HardAsStated(weekPlan.sessions[1])
    /\ \A k \in 1 .. Len(hist) :
            LET s == Argument_(k)
                d == Result_(k)
            IN  /\ isHardSession(d) <=> HardAsStated(d)
                /\ ~isHardSession(d)
                /\ d.intensity = "z2"
                /\ "vo2" \notin d.tags /\ "threshold" \notin d.tags
                /\ d.date = s.date
                /\ d.sport = s.sport
                /\ d.durationMin = s.durationMin
                /\ d.tags = s.tags \ {"vo2", "threshold"}

\* A z3 session hard only by its tags was downgraded and kept its other tags
C22_Witness ==
    /\ Len(hist) >= 1
    /\ Argument_(1).intensity = "z3"
    /\ Argument_(1).tags = {"vo2", "threshold", "long"}
    /\ Result_(1).tags = {"long"}
    /\ Result_(1).durationMin = 60

----------------------------------------------------------------------------
(* Entries per rule *)

\* C23: in one call of applyRules SwimRotation adds at most one
\* appliedRules entry and no warning, and ReadinessDownshift, NoHardHard and
\* WeeklyLoadCap add at most one warning and one appliedRules entry each,
\* however many sessions they change; the returned plan has at most 3
\* warnings and at most 4 appliedRules entries.
C23_OneEntryPerRule ==
    /\ SwimRotationRan => (Len(AddedRules(2)) <= 1 /\ AddedWarnings(2) = <<>>)
    /\ \A k \in 3 .. Len(hist) :
            Len(AddedWarnings(k)) <= 1 /\ Len(AddedRules(k)) <= 1
    /\ Returned => (Len(plan.warnings) <= 3 /\ Len(plan.appliedRules) <= 4)

\* SwimRotation rewrote two sessions and two later rules fired as well
C23_Witness ==
    /\ Returned
    /\ Cardinality(DueRotation) = 2
    /\ Len(AddedRules(2)) = 1
    /\ AddedWarnings(2) = <<>>
    /\ Len(plan.appliedRules) = 3
    /\ Len(plan.warnings) = 2

\* ReadinessDownshift downgraded two sessions and recorded it once
C23_WitnessReadiness ==
    /\ Returned
    /\ Cardinality(DueToday) = 2
    /\ LowReadiness
    /\ Len(AddedRules(3)) = 1
    /\ Len(AddedWarnings(3)) = 1

----------------------------------------------------------------------------
(* The numbers in WeeklyLoadCap's entry *)

\* The entry WeeklyLoadCap appended
LoadCapEntry == AddedRules(5)[1]

\* C24: when WeeklyLoadCap fires, the first number of its appliedRules
\* entry is the planned total before scaling and the second number is the
\* sum of durationMin over the sessions of the returned plan.
C24_EntryCitesTotals ==
    (Returned /\ AddedRules(5) # <<>>) =>
        /\ LoadCapEntry.a = plannedBefore
        /\ LoadCapEntry.b = sumDurations(plan.sessions)

----------------------------------------------------------------------------
(* The worker: when a message is recorded as processed *)

\* Deliveries of one /plan message
InitRetry ==
    /\ InitWorker
    /\ jobs[1].data.commandName = "plan"

SpecRetry == InitRetry /\ [][NextWorker]_vars

Processed == TheMessage \in db.processedMessages

\* A message is recorded only with its reply sent
RecordedAfterReply == Processed => sent.responses >= 1

\* What one step of slot s may do
SlotStep(s) ==
    \* the step in which an awaited call throws records nothing
    /\ (slots[s].at # "catch" /\ slots'[s].at = "catch") => db' = db
    \* the catch block records nothing, sends no reply but at most the
    \* error message, and fails the job, which waits for its next attempt
    \* while it has one
    /\ (slots[s].at = "catch" /\ slots'[s].at # "catch") =>
            /\ db' = db
            /\ sent'.responses = sent.responses
            /\ sent'.errors \in {sent.errors, sent.errors + 1}
            /\ jobs'[slots[s].job].state =
                    (IF jobs[slots[s].job].attemptsMade < 3 THEN "waiting" ELSE "failed")
    \* the row is written by an invocation that has sent its reply, as its
    \* last step
    /\ (slots[s].at # "idle" /\ ~Processed /\ Processed' /\ slots'[s] # slots[s]) =>
            /\ slots[s].at = "mark"
            /\ jobs'[slots[s].job].state = "completed"
            /\ sent' = sent
            /\ db'.workouts = db.workouts
    \* with the message on record, checkMessageProcessed leads to the
    \* return: no handler, no reply
    /\ (slots[s].at = "check" /\ Processed /\ slots'[s].at \notin {"check", "catch"}) =>
            /\ slots'[s].at = "idle"
            /\ jobs'[slots[s].job].state = "completed"
            /\ db' = db
            /\ sent' = sent

----------------------------------------------------------------------------
(* One downgrade per session and call *)

\* Where each position of NoHardHard's date order comes from in its argument
Origin ==
    LET sessions == AfterReadinessDownshift.sessions
        tagged == [idx \in 1 .. Len(sessions) |->
                        [date |-> sessions[idx].date, idx |-> idx]]
        order == sortByDate(tagged)
    IN  [k \in 1 .. Len(order) |-> order[k].idx]

Markers(session) ==
    Cardinality({i \in 1 .. Len(session.title) : session.title[i] = "(downgraded to Z2)"})

DowngradedLines(session) ==
    Cardinality({i \in 1 .. Len(session.notes) : session.notes[i].line = "Downgraded"})

\* C26: between the plan SwimRotation returns and the plan applyRules
\* returns a session gains at most one downgrade marker in its title and at
\* most one 'Downgraded:' line in its notes, and a session ReadinessDownshift
\* has rewritten is left as it is by NoHardHard.
C26_DowngradedOnce ==
    Returned =>
        \A k \in Indices(plan) :
            LET before == AfterSwimRotation.sessions[Origin[k]]
                lowered == AfterReadinessDownshift.sessions[Origin[k]]
            IN  /\ Markers(plan.sessions[k]) <= Markers(before) + 1
                /\ DowngradedLines(plan.sessions[k]) <= DowngradedLines(before) + 1
                /\ lowered # before => AfterNoHardHard.sessions[k] = lowered

\* Today's hard session, downgraded for low readiness, follows a hard
\* session of the day before and carries one marker when the plan returns
C26_Witness ==
    /\ Returned
    /\ \E k \in Indices(plan) :
        /\ k > 1
        /\ AfterReadinessDownshift.sessions[Origin[k]] # AfterSwimRotation.sessions[Origin[k]]
        /\ isHardSession(AfterSwimRotation.sessions[Origin[k]])
        /\ isHardSession(plan.sessions[k - 1])
        /\ plan.sessions[k - 1].date + 1 = plan.sessions[k].date
        /\ Markers(plan.sessions[k]) = 1
        /\ DowngradedLines(plan.sessions[k]) = 1

----------------------------------------------------------------------------
(* What applyRules leaves alone *)

\* The place of the session at index idx once the sessions are in date
\* order with sessions of one date in the order they had
Rank(sessions, idx) ==
    Cardinality({j \in 1 .. Len(sessions) :
        \/ sessions[j].date < sessions[idx].date
        \/ sessions[j].date = sessions[idx].date /\ j <= idx})

SameKind(a, b) == a.intensity = b.intensity /\ a.tags = b.tags

\* b is a with the rewriting of a downgrade
IsDowngradeOf(b, a) ==
    /\ b.intensity = "z2"
    /\ b.tags = a.tags \ HARD_TAGS
    /\ b.title = Append(a.title, "(downgraded to Z2)")

\* C27: applyRules returns as many sessions as it received, each input
\* session at its place in the stable date order with the date and sport it
\* had; durationMin is the input's until WeeklyLoadCap, which leaves
\* intensity and tags alone; SwimRotation changes intensity or tags of swim
\* sessions only, and after it they change only by a downgrade.
C27_Frame ==
    Returned =>
        /\ Len(plan.sessions) = Len(AfterReset.sessions)
        /\ \A idx \in Indices(AfterReset) :
            LET k == Rank(AfterReset.sessions, idx)
                received == AfterReset.sessions[idx]
                rotated == AfterSwimRotation.sessions[idx]
                lowered == AfterReadinessDownshift.sessions[idx]
                spaced == AfterNoHardHard.sessions[k]
                capped == AfterWeeklyLoadCap.sessions[k]
            IN  /\ plan.sessions[k] = capped
                /\ \A session \in {rotated, lowered, spaced, capped} :
                        /\ session.date = received.date
                        /\ session.sport = received.sport
                /\ \A session \in {rotated, lowered, spaced} :
                        session.durationMin = received.durationMin
                /\ SameKind(capped, spaced)
                /\ ~SameKind(rotated, received) => received.sport = "swim"
                /\ ~SameKind(lowered, rotated) => IsDowngradeOf(lowered, rotated)
                /\ ~SameKind(spaced, lowered) => IsDowngradeOf(spaced, lowered)

\* A plan handed in out of date order, two of its sessions on one date, is
\* returned with a session downgraded by NoHardHard and durations scaled
C27_Witness ==
    /\ Returned
    /\ \E i, j \in Indices(AfterReset) :
        /\ i < j
        /\ AfterReset.sessions[i].date > AfterReset.sessions[j].date
    /\ \E i, j \in Indices(AfterReset) :
        /\ i < j
        /\ AfterReset.sessions[i].date = AfterReset.sessions[j].date
        /\ AfterReset.sessions[i] # AfterReset.sessions[j]
    /\ AddedRules(4) # <<>>
    /\ AddedRules(5) # <<>>
    /\ \E k \in Indices(plan) :
        plan.sessions[k].durationMin # AfterNoHardHard.sessions[k].durationMin

----------------------------------------------------------------------------
(* WeeklyLoadCap, session by session *)

\* C28: no session leaves WeeklyLoadCap with more minutes than it had.
C28_OnlyScalesDown ==
    Returned =>
        \A idx \in Indices(plan) :
            plan.sessions[idx].durationMin <= AfterNoHardHard.sessions[idx].durationMin

----------------------------------------------------------------------------
(* Intensity *)

\* The place of an intensity in z1 < z2 < z3 < z4 < z5
Level(intensity) ==
    CASE intensity = "z1" -> 1
      [] intensity = "z2" -> 2
      [] intensity = "z3" -> 3
      [] intensity = "z4" -> 4
      [] intensity = "z5" -> 5

\* C29: but for a Friday swim that SwimRotation has rewritten, every session
\* is returned with an intensity no higher than the one it was handed in
\* with.
C29_IntensityNeverRaised ==
    Returned =>
        \A idx \in Indices(AfterReset) :
            LET received == AfterReset.sessions[idx]
                rotated == AfterSwimRotation.sessions[idx]
                returned == plan.sessions[Rank(AfterReset.sessions, idx)]
                fridaySwim == /\ received.sport = "swim"
                              /\ dayNameOf(received.date) = "Fri"
                              /\ rotated # received
            IN  ~fridaySwim => Level(returned.intensity) <= Level(received.intensity)

----------------------------------------------------------------------------
(* The generated week after applyRules *)

\* The week was generated and applyRules has returned
WeekReturned == Returned /\ Drafted

FridaySwim(session) == session.sport = "swim" /\ dayNameOf(session.date) = "Fri"

\* Thursday comes before Friday in the week and is still hard when
\* NoHardHard receives the plan, which holds a Friday swim
ThursdayHardBeforeFridaySwim ==
    \E i, j \in 1 .. Len(Walked) :
        /\ dayNameOf(Walked[i].date) = "Thu"
        /\ isHardSession(Walked[i])
        /\ FridaySwim(Walked[j])
        /\ Walked[i].date < Walked[j].date

\* C30: in the plan applyRules returns for a generated week no two days one
\* after the other both hold a hard session; NoHardHard downgrades nothing
\* but the Friday swim, and downgrades it exactly when the week has a Friday
\* swim, Thursday comes before Friday in it, and Thursday's session is still
\* hard after ReadinessDownshift.
C30_GeneratedWeek ==
    WeekReturned =>
        /\ \A i, j \in Indices(plan) :
                (isHardSession(plan.sessions[i]) /\ isHardSession(plan.sessions[j]))
                    => plan.sessions[i].date + 1 # plan.sessions[j].date
        /\ \A k \in Downgraded : FridaySwim(Walked[k])
        /\ (Downgraded # {}) <=> ThursdayHardBeforeFridaySwim

====
